---- MODULE Spec2Model ----
(***************************************************************************)
(* aws-janitor: the three resource cleaners of package action              *)
(* (cleanNetworkInterfaces, cleanVPCs, cleanLoadBalancersV2) run against a *)
(* provider account.  A behaviour is a sequence of passes of one cleaner;  *)
(* every provider call is one step, logged in `calls`, and may fail.       *)
(***************************************************************************)
EXTENDS Integers, Sequences, FiniteSets, TLC

\* ---------------------------------------------------------------- bounds
NumRes    == 2   \* resources of the cleaner's kind in the account
MaxPasses == 2   \* passes (invocations of the cleaner) in one behaviour
MaxFail   == 1   \* provider calls that fail in one behaviour
PageSize  == 1   \* resources per page of a paginated listing

ResIds == 1..NumRes
Kinds  == {"eni", "vpc", "elbv2"}

\* ------------------------------------------------------------------ tags
IgnoreTag   == "janitor-ignore"              \* input.IgnoreTag
DeletionTag == "aws-janitor/marked-for-deletion"
CfnName     == "aws:cloudformation:stack-name"
CfnId       == "aws:cloudformation:stack-id"

\* A tag is <<key, value>>; a tag set is a set of tags.
HasKey(tags, k) == \E t \in tags : t[1] = k

tIgn  == <<IgnoreTag, "true">>
tIgnF == <<IgnoreTag, "false">>
tDel  == <<DeletionTag, "true">>
tName == <<"Name", "x">>

\* The flags the tag loop of a cleaner computes.
ignoreFlag(tags) == HasKey(tags, IgnoreTag)
markedForDeletionFlag(tags) == HasKey(tags, DeletionTag)
managedByCloudFormationFlag(tags) == HasKey(tags, CfnName) \/ HasKey(tags, CfnId)

\* Classification of one enumerated resource, in the order of the code's tests.
\* Variant: the deletion tag is tested before the ignore tag.
ENIClassDeletionFirst(tags) ==
  IF markedForDeletionFlag(tags) THEN "marked"
  ELSE IF ignoreFlag(tags) THEN "ignored"
  ELSE "unmarked"

ENIClass(tags) ==
  IF ignoreFlag(tags) THEN "ignored"
  ELSE IF ~markedForDeletionFlag(tags) THEN "unmarked"
  ELSE "marked"

\* Variant: the `continue` after marking is missing, so an unmarked load
\* balancer falls through to the worklist.
LBClassNoGrace(tags) ==
  IF ignoreFlag(tags) THEN "ignored" ELSE "marked"

LBClass(tags) ==
  IF ignoreFlag(tags) THEN "ignored"
  ELSE IF ~markedForDeletionFlag(tags) THEN "unmarked"
  ELSE "marked"

\* Variant: vpc.IsDefault is not tested.
VPCClassNoDefault(tags, isDefault) ==
  IF ignoreFlag(tags) THEN "ignored"
  ELSE IF managedByCloudFormationFlag(tags) THEN "cloudformation"
  ELSE IF ~markedForDeletionFlag(tags) THEN "unmarked"
  ELSE "marked"

\* Variant: the CloudFormation tag keys are not tested.
VPCClassNoCloudFormation(tags, isDefault) ==
  IF ignoreFlag(tags) \/ isDefault THEN "ignored"
  ELSE IF ~markedForDeletionFlag(tags) THEN "unmarked"
  ELSE "marked"

VPCClass(tags, isDefault) ==
  IF ignoreFlag(tags) \/ isDefault THEN "ignored"
  ELSE IF managedByCloudFormationFlag(tags) THEN "cloudformation"
  ELSE IF ~markedForDeletionFlag(tags) THEN "unmarked"
  ELSE "marked"

\* Variants: marking does not look at a.commit.
MarkAlways(c) == TRUE
MarkNever(c)  == FALSE
\* Variant: the dry-run test in front of the delete call is inverted.
DeleteNowInverted(c) == ~c

\* `if a.commit` around the add-tag call of an unmarked resource.
MarkNow(c) == c
\* `if !a.commit { continue }` in front of the delete call of a marked resource.
DeleteNow(c) == c

\* ------------------------------------------------------ provider objects
\* A child object of a VPC or load balancer: assoc is the list of the Main
\* flags of a route table's associations (empty for the other kinds).
Kid(id, assoc) == [id |-> id, assoc |-> assoc]

NoKids   == [nat |-> <<>>, igw |-> <<>>, rt |-> <<>>, subnet |-> <<>>, tg |-> <<>>]
FullKids == [nat    |-> <<Kid("nat-1", <<>>)>>,
             igw    |-> <<Kid("igw-1", <<>>)>>,
             rt     |-> <<Kid("rtb-main", <<FALSE, TRUE>>), Kid("rtb-1", <<FALSE>>)>>,
             subnet |-> <<Kid("subnet-1", <<>>)>>,
             tg     |-> <<>>]
TgKids   == [NoKids EXCEPT !.tg = <<Kid("tg-1", <<>>)>>]

Obj(tags, isDefault, available, kids) ==
  [exists |-> TRUE, tags |-> tags, isDefault |-> isDefault,
   available |-> available, kids |-> kids]
Absent == [exists |-> FALSE, tags |-> {}, isDefault |-> FALSE,
           available |-> FALSE, kids |-> NoKids]

\* The resources an account may hold when the first pass starts.
Profiles(k) ==
  CASE k = "eni" ->
         { Obj({}, FALSE, TRUE, NoKids),
           Obj({tName, tIgnF}, FALSE, TRUE, NoKids),
           Obj({tDel}, FALSE, TRUE, NoKids),
           Obj({tDel, tIgn}, FALSE, TRUE, NoKids),
           Obj({tDel}, FALSE, FALSE, NoKids) }
    [] k = "vpc" ->
         { Obj({tName}, FALSE, TRUE, FullKids),
           Obj({tDel}, FALSE, TRUE, FullKids),
           Obj({tDel, tIgnF}, FALSE, TRUE, FullKids),
           Obj({tDel}, TRUE, TRUE, FullKids),
           Obj({tDel, <<CfnId, "s">>}, FALSE, TRUE, FullKids),
           Obj({<<CfnName, "s">>}, FALSE, TRUE, NoKids) }
    [] k = "elbv2" ->
         { Obj({}, FALSE, TRUE, TgKids),
           Obj({tDel}, FALSE, TRUE, TgKids),
           Obj({tDel, tIgnF}, FALSE, TRUE, TgKids),
           Obj({tIgn}, FALSE, TRUE, NoKids) }

\* ----------------------------------------------------------------- state
VARIABLES
  kind,      \* the cleaner this behaviour runs
  res,       \* provider state: resource id -> object
  pass,      \* number of the current pass (0 before the first)
  commit,    \* a.commit of the current pass
  pc,        \* position of the cleaner
  toList,    \* ids the listing has not returned yet (pagination cursor)
  page,      \* items of the current page / output not yet classified
  toDelete,  \* the deletion worklist (vpcsToDelete, lbsToDelete)
  cur,       \* id of the resource deleteVPC / deleteLoadBalancerV2 works on
  resp,      \* children returned by the last describe call, not yet processed
  calls,     \* provider calls issued in the current pass, in order
  fails,     \* failed provider calls so far
  class,     \* classification of each resource in the current pass
  result,    \* value returned by the cleaner: "none" (running), "nil", "error"
  nothing,   \* the "no ... to delete" line was logged in the current pass
  prev,      \* commit, class and result of the previous pass
  start,     \* provider state when the current pass started
  markedAt,  \* pass whose add-tag call put DeletionTag on the resource;
             \* 0: carried when the first pass started; -1: never
  cancelAt,  \* number of calls issued when ctx was cancelled; -1: not cancelled
  reported,  \* what deleteVPC / deleteLoadBalancerV2 returned for a resource
             \* in the current pass: "none" (not returned), "nil", "error"
  \* waitUntil
  wpc,       \* position in waitUntil: "off" (not called), "call", "top",
             \* "check", "checking", "select", "returned"
  now,       \* time.Now()
  timeout,   \* argument timeout
  interval,  \* argument interval
  waitFor,   \* the deadline computed on entry
  ctxAt,     \* position at which ctx was cancelled; "never": not cancelled
  wret,      \* value returned: "none", "nil", "timeout", "checkerr", "ctxerr"
  checks,    \* evaluations of check
  lateChecks,\* evaluations of check begun after ctx was cancelled
  overdue    \* check was evaluated in an iteration begun after the deadline

wvars == <<wpc, now, timeout, interval, waitFor, ctxAt, wret, checks,
           lateChecks, overdue>>

vars == <<kind, res, pass, commit, pc, toList, page, toDelete, cur, resp,
          calls, fails, class, result, nothing, prev, start, markedAt,
          cancelAt, reported, wvars>>

\* ctx of the cleaner has been cancelled.
cancelled == cancelAt >= 0

NoClass == [i \in ResIds |-> "none"]

NoReport == [i \in ResIds |-> "none"]

\* waitUntil is not running.
WaitOff ==
  /\ wpc = "off" /\ now = 0 /\ timeout = 0 /\ interval = 0 /\ waitFor = 0
  /\ ctxAt = "never" /\ wret = "none" /\ checks = 0 /\ lateChecks = 0
  /\ overdue = FALSE

\* A logged provider call: operation, resource, child object, outcome.
Call(op, id, child, ok) == [op |-> op, id |-> id, child |-> child, ok |-> ok]

\* The outcomes a provider call may have: at most MaxFail calls fail.
\* With ctx cancelled every call returns the context's error at once.
Outcomes == IF cancelled THEN {FALSE}
            ELSE IF fails < MaxFail THEN {TRUE, FALSE} ELSE {TRUE}

\* A failure that counts against MaxFail.
Failure(ok) == IF ok \/ cancelled THEN 0 ELSE 1

Issue(op, id, child, ok) ==
  /\ calls' = Append(calls, Call(op, id, child, ok))
  /\ fails' = fails + Failure(ok)

\* The item of a listing for resource i: the listing carries id, tags, IsDefault.
Item(i) == [id |-> i, tags |-> res[i].tags, isDefault |-> res[i].isDefault]

\* Ids a listing returns, in id order.  The network-interface listing filters
\* on status=available on the provider side.
RECURSIVE ListedFrom(_)
ListedFrom(i) ==
  IF i > NumRes THEN <<>>
  ELSE (IF res[i].exists /\ (kind = "eni" => res[i].available)
        THEN <<i>> ELSE <<>>) \o ListedFrom(i + 1)

Items(ids) == [j \in 1..Len(ids) |-> Item(ids[j])]

FirstN(s, n) == SubSeq(s, 1, IF Len(s) < n THEN Len(s) ELSE n)
DropN(s, n)  == SubSeq(s, (IF Len(s) < n THEN Len(s) ELSE n) + 1, Len(s))

\* Provider effects of successful calls.
\* Variant: the add-tag call carries an empty tag list.
AddDeletionTagEmpty(i) == res

AddDeletionTag(i)  == [res EXCEPT ![i].tags = @ \cup {tDel}]
\* Target groups outlive their load balancer.
RemoveResource(i)  == [res EXCEPT ![i] = [Absent EXCEPT !.kids.tg = res[i].kids.tg]]
RemoveKid(i, f, k) ==
  [res EXCEPT ![i].kids[f] = SelectSeq(@, LAMBDA x : x.id # k)]

TypeOK ==
  /\ kind \in Kinds
  /\ pass \in 0..MaxPasses
  /\ commit \in BOOLEAN
  /\ fails \in 0..MaxFail
  /\ result \in {"none", "nil", "error"}
  /\ nothing \in BOOLEAN
  /\ \A i \in ResIds : class[i] \in
       {"none", "ignored", "cloudformation", "unmarked", "marked", "tagsfailed"}

Init ==
  /\ kind \in Kinds
  /\ \E n \in 0..NumRes :
       res \in { f \in [ResIds -> Profiles(kind) \cup {Absent}] :
                   \A i \in ResIds : f[i].exists <=> i <= n }
  /\ pass = 0
  /\ commit = FALSE
  /\ pc = "idle"
  /\ toList = <<>>
  /\ page = <<>>
  /\ toDelete = <<>>
  /\ cur = 0
  /\ resp = <<>>
  /\ calls = <<>>
  /\ fails = 0
  /\ class = NoClass
  /\ result = "none"
  /\ nothing = FALSE
  /\ prev = [commit |-> FALSE, class |-> NoClass, result |-> "none"]
  /\ start = res
  /\ markedAt = [i \in ResIds |->
                   IF markedForDeletionFlag(res[i].tags) THEN 0 ELSE -1]
  /\ cancelAt = -1
  /\ reported = NoReport
  /\ WaitOff

\* The caller invokes the cleaner once more, in commit or dry-run mode.
StartPass ==
  /\ pc \in {"idle", "done"}
  /\ ~cancelled
  /\ pass < MaxPasses
  /\ reported' = NoReport
  /\ \E c \in BOOLEAN : commit' = c
  /\ pass' = pass + 1
  /\ prev' = [commit |-> commit, class |-> class, result |-> result]
  /\ start' = res
  /\ pc' = "list"
  /\ toList' = ListedFrom(1)
  /\ page' = <<>>
  /\ toDelete' = <<>>
  /\ cur' = 0
  /\ resp' = <<>>
  /\ calls' = <<>>
  /\ class' = NoClass
  /\ result' = "none"
  /\ nothing' = FALSE
  /\ UNCHANGED <<wvars, cancelAt, kind, res, fails, markedAt>>

\* ------------------------------------------------ cleanNetworkInterfaces
\* DescribeNetworkInterfaces: one call returns every available interface.
cleanNetworkInterfaces_Describe ==
  /\ kind = "eni" /\ pc = "list"
  /\ \E ok \in Outcomes :
       /\ Issue("DescribeNetworkInterfaces", 0, "", ok)
       /\ IF ~ok
            THEN /\ result' = "error" /\ pc' = "done"
                 /\ UNCHANGED <<page, toList, nothing>>
            ELSE /\ page' = Items(toList)
                 /\ toList' = <<>>
                 /\ IF toList = <<>>
                      THEN nothing' = TRUE /\ result' = "nil" /\ pc' = "done"
                      ELSE nothing' = FALSE /\ result' = "none" /\ pc' = "loop"
  /\ UNCHANGED <<wvars, cancelAt, reported, kind, res, pass, commit, toDelete, cur, resp, class, prev,
                 start, markedAt>>

\* One iteration of the loop over out.NetworkInterfaces.
cleanNetworkInterfaces_Loop ==
  /\ kind = "eni" /\ pc = "loop" /\ page # <<>>
  /\ LET ni  == Head(page)
         cls == ENIClass(ni.tags)
     IN /\ class' = [class EXCEPT ![ni.id] = cls]
        /\ page' = Tail(page)
        /\ IF Tail(page) = <<>>
             THEN result' = "nil" /\ pc' = "done"
             ELSE UNCHANGED <<result, pc>>
        /\ CASE cls = "unmarked" /\ MarkNow(commit) ->
                  \E ok \in Outcomes :
                    /\ Issue("CreateTags", ni.id, "", ok)
                    /\ res' = IF ok THEN AddDeletionTag(ni.id) ELSE res
                    /\ markedAt' = IF ok THEN [markedAt EXCEPT ![ni.id] = pass]
                                   ELSE markedAt
             [] cls = "marked" /\ DeleteNow(commit) ->
                  \E ok \in Outcomes :
                    /\ Issue("DeleteNetworkInterface", ni.id, "", ok)
                    /\ res' = IF ok THEN RemoveResource(ni.id) ELSE res
                    /\ UNCHANGED markedAt
             [] OTHER -> UNCHANGED <<calls, fails, res, markedAt>>
  /\ UNCHANGED <<wvars, cancelAt, reported, kind, pass, commit, toList, toDelete, cur, resp, nothing,
                 prev, start>>

\* ------------------------------------------------------------- cleanVPCs
\* Variant: an empty worklist returns nil without the "no ... to delete" line.
AfterEnumerationSilent(wl) ==
  IF wl = <<>>
    THEN nothing' = FALSE /\ result' = "nil" /\ pc' = "done"
    ELSE nothing' = FALSE /\ result' = "none" /\ pc' = "delete"

\* The steps after DescribeVpcsPages / DescribeLoadBalancersPages returned nil:
\* an empty worklist logs "no ... to delete" and returns nil.
AfterEnumeration(wl) ==
  IF wl = <<>>
    THEN nothing' = TRUE /\ result' = "nil" /\ pc' = "done"
    ELSE nothing' = FALSE /\ result' = "none" /\ pc' = "delete"

\* What the worklist loop does once the deletion of one resource has returned,
\* with or without an error: it goes on to the next one, and returns nil at the end.
AfterDelete(wl) ==
  IF wl = <<>> THEN result' = "nil" /\ pc' = "done"
  ELSE result' = "none" /\ pc' = "delete"

\* Variants: an error of deleteVPC / deleteLoadBalancerV2 ends the loop, and
\* is returned.
OnDeleteErrorBreak(wl)  == result' = "nil" /\ pc' = "done"
OnDeleteErrorReturn(wl) == result' = "error" /\ pc' = "done"

\* The worklist loop when deleteVPC / deleteLoadBalancerV2 returned an error:
\* LogError, then the next iteration.
OnDeleteError(wl) == AfterDelete(wl)

\* pageFunc returns true: the pager requests the next page while there is one.
MorePages(rest) == rest # <<>>

\* One request of DescribeVpcsPagesWithContext.
cleanVPCs_DescribePage ==
  /\ kind = "vpc" /\ pc = "list"
  /\ \E ok \in Outcomes :
       /\ Issue("DescribeVpcs", 0, "", ok)
       /\ IF ~ok
            THEN /\ result' = "error" /\ pc' = "done"
                 /\ UNCHANGED <<page, toList, nothing>>
            ELSE /\ page' = Items(FirstN(toList, PageSize))
                 /\ toList' = DropN(toList, PageSize)
                 /\ IF toList = <<>>
                      THEN AfterEnumeration(toDelete)
                      ELSE pc' = "page" /\ UNCHANGED <<result, nothing>>
  /\ UNCHANGED <<wvars, cancelAt, reported, kind, res, pass, commit, toDelete, cur, resp, class, prev,
                 start, markedAt>>

\* One iteration of pageFunc's loop over page.Vpcs.
cleanVPCs_pageFunc ==
  /\ kind = "vpc" /\ pc = "page" /\ page # <<>>
  /\ LET vpc == Head(page)
         cls == VPCClass(vpc.tags, vpc.isDefault)
         wl  == IF cls = "marked" THEN Append(toDelete, vpc.id) ELSE toDelete
     IN /\ class' = [class EXCEPT ![vpc.id] = cls]
        /\ page' = Tail(page)
        /\ toDelete' = wl
        /\ IF Tail(page) # <<>> THEN UNCHANGED <<pc, result, nothing>>
           ELSE IF MorePages(toList) THEN pc' = "list" /\ UNCHANGED <<result, nothing>>
           ELSE AfterEnumeration(wl)
        /\ IF cls = "unmarked" /\ MarkNow(commit)
             THEN \E ok \in Outcomes :
                    /\ Issue("CreateTags", vpc.id, "", ok)
                    /\ res' = IF ok THEN AddDeletionTag(vpc.id) ELSE res
                    /\ markedAt' = IF ok THEN [markedAt EXCEPT ![vpc.id] = pass]
                                   ELSE markedAt
             ELSE UNCHANGED <<calls, fails, res, markedAt>>
  /\ UNCHANGED <<wvars, cancelAt, reported, kind, pass, commit, toList, cur, resp, prev, start>>

\* One iteration of the loop over vpcsToDelete, up to the call of deleteVPC.
cleanVPCs_DeleteLoop ==
  /\ kind = "vpc" /\ pc = "delete" /\ toDelete # <<>>
  /\ toDelete' = Tail(toDelete)
  /\ IF ~DeleteNow(commit)
       THEN /\ AfterDelete(Tail(toDelete))
            /\ UNCHANGED cur
       ELSE /\ cur' = Head(toDelete)
            /\ pc' = "nat"
            /\ UNCHANGED result
  /\ UNCHANGED <<wvars, cancelAt, reported, kind, res, pass, commit, toList, page, resp, calls, fails,
                 class, nothing, prev, start, markedAt>>

\* Variant: route tables are torn down before internet gateways.
PhaseAfterRoutesFirst(p) ==
  CASE p = "nat"    -> "rt"
    [] p = "rt"     -> "igw"
    [] p = "igw"    -> "subnet"
    [] p = "subnet" -> "delvpc"

\* cleanVPCDependencies: the phase that follows phase p; deleteVPC issues
\* DeleteVpc after the last one.
PhaseAfter(p) ==
  CASE p = "nat"    -> "igw"
    [] p = "igw"    -> "rt"
    [] p = "rt"     -> "subnet"
    [] p = "subnet" -> "delvpc"

\* Variant: cleanVPCDependencies returns at the first phase that fails.
OnPhaseErrorReturn(p) == "delvpc"

\* cleanVPCDependencies when a phase returned an error: LogError, then the
\* next phase.
OnPhaseError(p) == PhaseAfter(p)

\* The describe call that opens a teardown phase: an error ends the phase.
DescribePhase(p, op, field) ==
  /\ kind = "vpc" /\ pc = p
  /\ \E ok \in Outcomes :
       /\ Issue(op, cur, "", ok)
       /\ IF ok /\ res[cur].kids[field] # <<>>
            THEN resp' = res[cur].kids[field] /\ pc' = p \o "_del"
            ELSE resp' = <<>> /\ pc' = IF ok THEN PhaseAfter(p) ELSE OnPhaseError(p)
  /\ UNCHANGED <<wvars, cancelAt, reported, kind, res, pass, commit, toList, page, toDelete, cur, class,
                 result, nothing, prev, start, markedAt>>

\* One iteration of a phase's loop that issues one delete call.
DeleteKid(p, op, field) ==
  /\ kind = "vpc" /\ pc = p \o "_del" /\ resp # <<>>
  /\ \E ok \in Outcomes :
       /\ Issue(op, cur, Head(resp).id, ok)
       /\ res' = IF ok THEN RemoveKid(cur, field, Head(resp).id) ELSE res
  /\ resp' = Tail(resp)
  /\ pc' = IF Tail(resp) = <<>> THEN PhaseAfter(p) ELSE pc
  /\ UNCHANGED <<wvars, cancelAt, reported, kind, pass, commit, toList, page, toDelete, cur, class,
                 result, nothing, prev, start, markedAt>>

deleteNATGateways_Describe == DescribePhase("nat", "DescribeNatGateways", "nat")
deleteNATGateways_Delete   == DeleteKid("nat", "DeleteNatGateway", "nat")

deleteInternetGateways_Describe ==
  DescribePhase("igw", "DescribeInternetGateways", "igw")

\* One iteration of the loop over resp.InternetGateways, up to the delete
\* call: DetachInternetGateway; a failed detach skips the delete of that gateway.
deleteInternetGateways_Detach ==
  /\ kind = "vpc" /\ pc = "igw_del" /\ resp # <<>>
  /\ LET igw == Head(resp).id IN
     \E detached \in Outcomes :
       /\ Issue("DetachInternetGateway", cur, igw, detached)
       /\ IF detached
            THEN /\ res' = RemoveKid(cur, "igw", igw)
                 /\ pc' = "igw_rm"
                 /\ UNCHANGED resp
            ELSE /\ resp' = Tail(resp)
                 /\ pc' = IF Tail(resp) = <<>> THEN PhaseAfter("igw") ELSE pc
                 /\ UNCHANGED res
  /\ UNCHANGED <<wvars, cancelAt, reported, kind, pass, commit, toList, page, toDelete, cur, class,
                 result, nothing, prev, start, markedAt>>

\* DeleteInternetGateway for the gateway just detached; an error is only logged.
deleteInternetGateways_Delete ==
  /\ kind = "vpc" /\ pc = "igw_rm" /\ resp # <<>>
  /\ \E ok \in Outcomes : Issue("DeleteInternetGateway", cur, Head(resp).id, ok)
  /\ resp' = Tail(resp)
  /\ pc' = IF Tail(resp) = <<>> THEN PhaseAfter("igw") ELSE "igw_del"
  /\ UNCHANGED <<wvars, cancelAt, reported, kind, res, pass, commit, toList, page, toDelete, cur,
                 class, result, nothing, prev, start, markedAt>>

deleteRouteTables_Describe == DescribePhase("rt", "DescribeRouteTables", "rt")

\* Variant: only the first association is looked at.
isMainFirstOnly(assoc) == Len(assoc) > 0 /\ assoc[1]

\* The loop over rt.Associations.
isMain(assoc) == \E j \in 1..Len(assoc) : assoc[j]

deleteRouteTables_Delete ==
  /\ pc = "rt_del" /\ resp # <<>>
  /\ IF isMain(Head(resp).assoc)
       THEN /\ kind = "vpc"
            /\ resp' = Tail(resp)
            /\ pc' = IF Tail(resp) = <<>> THEN PhaseAfter("rt") ELSE pc
            /\ UNCHANGED <<wvars, cancelAt, reported, kind, res, pass, commit, toList, page, toDelete, cur,
                           calls, fails, class, result, nothing, prev, start,
                           markedAt>>
       ELSE DeleteKid("rt", "DeleteRouteTable", "rt")

deleteSubnets_Describe == DescribePhase("subnet", "DescribeSubnets", "subnet")
deleteSubnets_Delete   == DeleteKid("subnet", "DeleteSubnet", "subnet")

\* The provider rejects DeleteVpc while the VPC has live dependents; the main
\* route table goes with the VPC.
Dependents(i) ==
  \/ res[i].kids.nat # <<>>
  \/ res[i].kids.igw # <<>>
  \/ res[i].kids.subnet # <<>>
  \/ \E j \in 1..Len(res[i].kids.rt) : ~isMain(res[i].kids.rt[j].assoc)

\* deleteVPC after cleanVPCDependencies has returned.
deleteVPC_DeleteVpc ==
  /\ kind = "vpc" /\ pc = "delvpc"
  /\ \E ok \in (IF Dependents(cur) THEN {FALSE} ELSE Outcomes) :
       /\ calls' = Append(calls, Call("DeleteVpc", cur, "", ok))
       /\ fails' = IF Dependents(cur) THEN fails ELSE fails + Failure(ok)
       /\ res' = IF ok THEN RemoveResource(cur) ELSE res
       /\ reported' = [reported EXCEPT ![cur] = IF ok THEN "nil" ELSE "error"]
       /\ IF ok THEN AfterDelete(toDelete) ELSE OnDeleteError(toDelete)
  /\ UNCHANGED <<wvars, cancelAt, kind, pass, commit, toList, page, toDelete, cur, resp, class,
                 nothing, prev, start, markedAt>>

\* -------------------------------------------------- cleanLoadBalancersV2
\* One request of DescribeLoadBalancersPagesWithContext.
cleanLoadBalancersV2_DescribePage ==
  /\ kind = "elbv2" /\ pc = "list"
  /\ \E ok \in Outcomes :
       /\ Issue("DescribeLoadBalancers", 0, "", ok)
       /\ IF ~ok
            THEN /\ result' = "error" /\ pc' = "done"
                 /\ UNCHANGED <<page, toList, nothing>>
            ELSE /\ page' = Items(FirstN(toList, PageSize))
                 /\ toList' = DropN(toList, PageSize)
                 /\ IF toList = <<>>
                      THEN AfterEnumeration(toDelete)
                      ELSE pc' = "page" /\ UNCHANGED <<result, nothing>>
  /\ UNCHANGED <<wvars, cancelAt, reported, kind, res, pass, commit, toDelete, cur, resp, class, prev,
                 start, markedAt>>

\* The end of one iteration of pageFunc's loop over page.LoadBalancers, wl
\* being the worklist: the next load balancer, the next page, or the end of
\* the enumeration.
pageFunc_Continue(wl) ==
  IF Tail(page) # <<>> THEN pc' = "page" /\ UNCHANGED <<result, nothing>>
  ELSE IF MorePages(toList) THEN pc' = "list" /\ UNCHANGED <<result, nothing>>
  ELSE AfterEnumeration(wl)

\* One iteration of pageFunc's loop over page.LoadBalancers, up to the call of
\* markLoadBalancerV2ForFutureDeletion: the tags are fetched with DescribeTags,
\* and a failure skips the load balancer.
cleanLoadBalancersV2_pageFunc ==
  /\ kind = "elbv2" /\ pc = "page" /\ page # <<>>
  /\ LET lb == Head(page).id IN
     \E fetched \in Outcomes :
       LET cls == IF fetched THEN LBClass(res[lb].tags) ELSE "tagsfailed"
           wl  == IF cls = "marked" THEN Append(toDelete, lb) ELSE toDelete
       IN /\ Issue("DescribeTags", lb, "", fetched)
          /\ class' = [class EXCEPT ![lb] = cls]
          /\ toDelete' = wl
          /\ IF cls = "unmarked" /\ MarkNow(commit)
               THEN pc' = "mark" /\ UNCHANGED <<page, result, nothing>>
               ELSE page' = Tail(page) /\ pageFunc_Continue(wl)
  /\ UNCHANGED <<wvars, cancelAt, reported, kind, res, pass, commit, toList, cur,
                 resp, prev, start, markedAt>>

\* markLoadBalancerV2ForFutureDeletion: AddTags; an error is only logged.
markLoadBalancerV2ForFutureDeletion ==
  /\ kind = "elbv2" /\ pc = "mark" /\ page # <<>>
  /\ LET lb == Head(page).id IN
     \E ok \in Outcomes :
       /\ Issue("AddTags", lb, "", ok)
       /\ res' = IF ok THEN AddDeletionTag(lb) ELSE res
       /\ markedAt' = IF ok THEN [markedAt EXCEPT ![lb] = pass] ELSE markedAt
  /\ page' = Tail(page)
  /\ pageFunc_Continue(toDelete)
  /\ UNCHANGED <<wvars, cancelAt, reported, kind, pass, commit, toList, toDelete,
                 cur, resp, class, prev, start>>

\* One iteration of the loop over lbsToDelete, up to the call of
\* deleteLoadBalancerV2.
cleanLoadBalancersV2_DeleteLoop ==
  /\ kind = "elbv2" /\ pc = "delete" /\ toDelete # <<>>
  /\ toDelete' = Tail(toDelete)
  /\ IF ~DeleteNow(commit)
       THEN /\ AfterDelete(Tail(toDelete))
            /\ UNCHANGED cur
       ELSE /\ cur' = Head(toDelete)
            /\ pc' = "tgs"
            /\ UNCHANGED result
  /\ UNCHANGED <<wvars, cancelAt, reported, kind, res, pass, commit, toList, page, resp, calls, fails,
                 class, nothing, prev, start, markedAt>>

\* DescribeTargetGroups: on an error the output holds no target group, and
\* deleteLoadBalancerV2 goes on.
deleteLoadBalancerV2_DescribeTargetGroups ==
  /\ kind = "elbv2" /\ pc = "tgs"
  /\ \E ok \in Outcomes :
       /\ Issue("DescribeTargetGroups", cur, "", ok)
       /\ resp' = IF ok THEN res[cur].kids.tg ELSE <<>>
  /\ pc' = "dellb"
  /\ UNCHANGED <<wvars, cancelAt, reported, kind, res, pass, commit, toList, page, toDelete, cur, class,
                 result, nothing, prev, start, markedAt>>

\* DeleteLoadBalancer: an error is returned to the worklist loop.
deleteLoadBalancerV2_DeleteLoadBalancer ==
  /\ kind = "elbv2" /\ pc = "dellb"
  /\ \E ok \in Outcomes :
       /\ Issue("DeleteLoadBalancer", cur, "", ok)
       /\ IF ok
            THEN /\ res' = RemoveResource(cur)
                 /\ pc' = "wait"
                 /\ UNCHANGED <<resp, result, reported>>
            ELSE /\ resp' = <<>>
                 /\ reported' = [reported EXCEPT ![cur] = "error"]
                 /\ OnDeleteError(toDelete)
                 /\ UNCHANGED res
  /\ UNCHANGED <<wvars, cancelAt, kind, pass, commit, toList, page, toDelete, cur, class,
                 nothing, prev, start, markedAt>>

\* Variant: a failed wait returns from deleteLoadBalancerV2.
TargetGroupsAfterWaitAbort(ok, tgs) == IF ok THEN tgs ELSE <<>>

\* The target groups the loop goes over once the wait has returned: its error
\* is logged as a warning only.
TargetGroupsAfterWait(ok, tgs) == tgs

\* WaitUntilLoadBalancersDeleted, then the head of the target-group loop.
deleteLoadBalancerV2_Wait ==
  /\ kind = "elbv2" /\ pc = "wait"
  /\ \E ok \in Outcomes :
       /\ Issue("WaitUntilLoadBalancersDeleted", cur, "", ok)
       /\ resp' = TargetGroupsAfterWait(ok, resp)
  /\ IF resp' = <<>>
       THEN /\ AfterDelete(toDelete)
            /\ reported' = [reported EXCEPT ![cur] = "nil"]
       ELSE pc' = "tg_del" /\ UNCHANGED <<result, reported>>
  /\ UNCHANGED <<wvars, cancelAt, kind, res, pass, commit, toList, page, toDelete, cur,
                 class, nothing, prev, start, markedAt>>

\* One iteration of the loop over tgsOut.TargetGroups.
deleteLoadBalancerV2_DeleteTargetGroup ==
  /\ kind = "elbv2" /\ pc = "tg_del" /\ resp # <<>>
  /\ \E ok \in Outcomes :
       /\ Issue("DeleteTargetGroup", cur, Head(resp).id, ok)
       /\ res' = IF ok THEN RemoveKid(cur, "tg", Head(resp).id) ELSE res
  /\ resp' = Tail(resp)
  /\ IF Tail(resp) = <<>>
       THEN /\ AfterDelete(toDelete)
            /\ reported' = [reported EXCEPT ![cur] = "nil"]
       ELSE UNCHANGED <<pc, result, reported>>
  /\ UNCHANGED <<wvars, cancelAt, kind, pass, commit, toList, page, toDelete, cur, class,
                 nothing, prev, start, markedAt>>

Next ==
  \/ StartPass
  \/ cleanNetworkInterfaces_Describe
  \/ cleanNetworkInterfaces_Loop
  \/ cleanVPCs_DescribePage
  \/ cleanVPCs_pageFunc
  \/ cleanVPCs_DeleteLoop
  \/ deleteNATGateways_Describe
  \/ deleteNATGateways_Delete
  \/ deleteInternetGateways_Describe
  \/ deleteInternetGateways_Detach
  \/ deleteInternetGateways_Delete
  \/ deleteRouteTables_Describe
  \/ deleteRouteTables_Delete
  \/ deleteSubnets_Describe
  \/ deleteSubnets_Delete
  \/ deleteVPC_DeleteVpc
  \/ cleanLoadBalancersV2_DescribePage
  \/ cleanLoadBalancersV2_pageFunc
  \/ markLoadBalancerV2ForFutureDeletion
  \/ cleanLoadBalancersV2_DeleteLoop
  \/ deleteLoadBalancerV2_DescribeTargetGroups
  \/ deleteLoadBalancerV2_DeleteLoadBalancer
  \/ deleteLoadBalancerV2_Wait
  \/ deleteLoadBalancerV2_DeleteTargetGroup

Spec == Init /\ [][Next]_vars

\* The caller cancels ctx while the cleaner runs.
Cancel ==
  /\ pc \notin {"idle", "done"}
  /\ ~cancelled
  /\ cancelAt' = Len(calls)
  /\ UNCHANGED <<wvars, reported, kind, res, pass, commit, pc, toList, page,
                 toDelete, cur, resp, calls, fails, class, result, nothing,
                 prev, start, markedAt>>

NextCancel == Next \/ Cancel

\* The cleaners under a context that may be cancelled.
SpecCancel == Init /\ [][NextCancel]_vars

\* Behaviours of one cleaner alone, for the properties that are about it.
InitCleanVPCs == Init /\ kind = "vpc"

NextCleanVPCs ==
  \/ StartPass
  \/ cleanVPCs_DescribePage
  \/ cleanVPCs_pageFunc
  \/ cleanVPCs_DeleteLoop
  \/ deleteNATGateways_Describe
  \/ deleteNATGateways_Delete
  \/ deleteInternetGateways_Describe
  \/ deleteInternetGateways_Detach
  \/ deleteInternetGateways_Delete
  \/ deleteRouteTables_Describe
  \/ deleteRouteTables_Delete
  \/ deleteSubnets_Describe
  \/ deleteSubnets_Delete
  \/ deleteVPC_DeleteVpc

SpecCleanVPCs == InitCleanVPCs /\ [][NextCleanVPCs]_vars

InitCleanLoadBalancersV2 == Init /\ kind = "elbv2"

NextCleanLoadBalancersV2 ==
  \/ StartPass
  \/ cleanLoadBalancersV2_DescribePage
  \/ cleanLoadBalancersV2_pageFunc
  \/ markLoadBalancerV2ForFutureDeletion
  \/ cleanLoadBalancersV2_DeleteLoop
  \/ deleteLoadBalancerV2_DescribeTargetGroups
  \/ deleteLoadBalancerV2_DeleteLoadBalancer
  \/ deleteLoadBalancerV2_Wait
  \/ deleteLoadBalancerV2_DeleteTargetGroup

SpecCleanLoadBalancersV2 ==
  InitCleanLoadBalancersV2 /\ [][NextCleanLoadBalancersV2]_vars

\* ---------------------------------------------------------------- waitUntil
MaxTimeout   == 2    \* timeout is drawn from 0..MaxTimeout clock ticks
MaxInterval  == 2    \* interval is drawn from 0..MaxInterval clock ticks
MaxCheckTime == 1    \* one evaluation of check takes 0..MaxCheckTime ticks
MaxChecks    == 3    \* checks and lateChecks stop counting at MaxChecks
MaxLag       == 1    \* ticks that may pass between two successive statements

cvars == <<kind, res, pass, commit, pc, toList, page, toDelete, cur, resp,
           calls, fails, class, result, nothing, prev, start, markedAt,
           cancelAt, reported>>

Inc(n) == IF n < MaxChecks THEN n + 1 ELSE n

\* Variant: the deadline test lets one more tick pass.
ExpiredLate(t, deadline) == t > deadline + 1

\* time.Now().After(waitFor)
Expired(t, deadline) == t > deadline

\* Variant: the sleep does not listen to ctx.
SelectOutcomesTimerOnly(ctxDone, iv, lag) == {"timer"}

\* The cases of the select statement that can be taken when it polls them, lag
\* ticks after time.After(iv) armed the timer: ctx.Done() is ready once ctx is
\* cancelled, the timer channel once iv ticks have passed; with both ready
\* either case may be taken.
SelectOutcomes(ctxDone, iv, lag) ==
  IF ~ctxDone THEN {"timer"}
  ELSE IF iv > lag THEN {"ctx"}
  ELSE {"ctx", "timer"}

\* A call of waitUntil by a caller whose ctx may already be cancelled.
InitWait ==
  /\ kind = "vpc"
  /\ res = [i \in ResIds |-> Absent]
  /\ pass = 0
  /\ commit = FALSE
  /\ pc = "idle"
  /\ toList = <<>>
  /\ page = <<>>
  /\ toDelete = <<>>
  /\ cur = 0
  /\ resp = <<>>
  /\ calls = <<>>
  /\ fails = 0
  /\ class = NoClass
  /\ result = "none"
  /\ nothing = FALSE
  /\ prev = [commit |-> FALSE, class |-> NoClass, result |-> "none"]
  /\ start = res
  /\ markedAt = [i \in ResIds |-> -1]
  /\ cancelAt = -1
  /\ reported = NoReport
  /\ wpc = "call"
  /\ now = 0
  /\ timeout \in 0..MaxTimeout
  /\ interval \in 0..MaxInterval
  /\ waitFor = 0
  /\ ctxAt \in {"never", "entry"}
  /\ wret = "none"
  /\ checks = 0
  /\ lateChecks = 0
  /\ overdue = FALSE

\* waitFor := time.Now().Add(timeout)
waitUntil_Enter ==
  /\ wpc = "call"
  /\ waitFor' = now + timeout
  /\ wpc' = "top"
  /\ UNCHANGED <<cvars, now, timeout, interval, ctxAt, wret, checks,
                 lateChecks, overdue>>

\* The head of the loop: the clock is read anew, some time after the last
\* reading, and compared with the deadline.
waitUntil_Deadline ==
  /\ wpc = "top"
  /\ \E d \in 0..MaxLag : now' = now + d
  /\ IF Expired(now', waitFor)
       THEN wret' = "timeout" /\ wpc' = "returned"
       ELSE wret' = wret /\ wpc' = "check"
  /\ overdue' = (overdue \/ (wpc' = "check" /\ now' > waitFor))
  /\ UNCHANGED <<cvars, timeout, interval, waitFor, ctxAt, checks, lateChecks>>

\* check(ctx) is called.
waitUntil_CheckBegin ==
  /\ wpc = "check"
  /\ wpc' = "checking"
  /\ checks' = Inc(checks)
  /\ lateChecks' = IF ctxAt # "never" THEN Inc(lateChecks) ELSE lateChecks
  /\ UNCHANGED <<cvars, now, timeout, interval, waitFor, ctxAt, wret, overdue>>

\* check(ctx) returns, some time after it was called: an error, done, or not
\* done yet.
waitUntil_CheckEnd ==
  /\ wpc = "checking"
  /\ \E d \in 0..MaxCheckTime : now' = now + d
  /\ \E out \in {"err", "done", "notdone"} :
       CASE out = "err"     -> wret' = "checkerr" /\ wpc' = "returned"
         [] out = "done"    -> wret' = "nil" /\ wpc' = "returned"
         [] out = "notdone" -> wret' = wret /\ wpc' = "select"
  /\ UNCHANGED <<cvars, timeout, interval, waitFor, ctxAt, checks, lateChecks,
                 overdue>>

\* The select statement, polled lag ticks after the timer was armed:
\* ctx.Done() returns ctx.Err(), the timer starts the next iteration once
\* interval has passed.
waitUntil_Select ==
  /\ wpc = "select"
  /\ \E lag \in 0..MaxLag :
       \E c \in SelectOutcomes(ctxAt # "never", interval, lag) :
         IF c = "ctx"
           THEN wret' = "ctxerr" /\ wpc' = "returned" /\ now' = now + lag
           ELSE /\ wret' = wret /\ wpc' = "top"
                /\ now' = now + (IF lag > interval THEN lag ELSE interval)
  /\ UNCHANGED <<cvars, timeout, interval, waitFor, ctxAt, checks, lateChecks,
                 overdue>>

\* The caller cancels ctx while waitUntil runs.
waitUntil_Cancel ==
  /\ wpc \in {"top", "check", "checking", "select"}
  /\ ctxAt = "never"
  /\ ctxAt' = wpc
  /\ UNCHANGED <<cvars, wpc, now, timeout, interval, waitFor, wret, checks,
                 lateChecks, overdue>>

\* The steps waitUntil takes by itself.
WaitSteps ==
  \/ waitUntil_Enter
  \/ waitUntil_Deadline
  \/ waitUntil_CheckBegin
  \/ waitUntil_CheckEnd
  \/ waitUntil_Select

NextWait == WaitSteps \/ waitUntil_Cancel

SpecWait == InitWait /\ [][NextWait]_vars

\* The goroutine is scheduled and the clock advances: a step waitUntil can
\* take is eventually taken.
SpecWaitFair == SpecWait /\ WF_vars(WaitSteps)

\* ================================================================ claims
\* Vocabulary of the properties, stated on the call log and on the provider
\* state at the start of the pass, independently of the cleaners' operators.
Keys(tags) == {t[1] : t \in tags}

ListOps     == {"DescribeNetworkInterfaces", "DescribeVpcs", "DescribeLoadBalancers"}
AddTagOps   == {"CreateTags", "AddTags"}
DeleteOps   == {"DeleteNetworkInterface", "DeleteVpc", "DeleteLoadBalancer"}
TeardownOps == {"DeleteNatGateway", "DetachInternetGateway", "DeleteInternetGateway",
                "DeleteRouteTable", "DeleteSubnet", "DeleteTargetGroup"}
MutatingOps == AddTagOps \cup DeleteOps \cup TeardownOps

\* Number of calls of the current pass with an operation in ops on resource i.
Count(ops, i) ==
  Cardinality({j \in 1..Len(calls) : calls[j].op \in ops /\ calls[j].id = i})

\* Resource i was returned by the listing of the current pass and processed:
\* its iteration of the classification loop is over.
Enumerated(i) ==
  /\ class[i] # "none"
  /\ ~(pc = "mark" /\ page # <<>> /\ Head(page).id = i)

\* The tags of i were read in the current pass (load balancers: DescribeTags).
TagsRead(i) ==
  kind = "elbv2" =>
    \E j \in 1..Len(calls) :
      calls[j].op = "DescribeTags" /\ calls[j].id = i /\ calls[j].ok

\* A VPC the cleaner excludes whatever its tags: default or owned by a stack.
Excluded(i) ==
  kind = "vpc" /\ (start[i].isDefault
                   \/ Keys(start[i].tags) \cap {CfnName, CfnId} # {})

PassDone == pass >= 1 /\ pc = "done"

\* C1: a resource whose tags hold the ignore-tag key (any value) gets no
\* add-tag, delete or teardown call in the pass, in commit and in dry-run,
\* with or without DeletionTag.
C1_IgnoreWins ==
  \A i \in ResIds :
    (start[i].exists /\ IgnoreTag \in Keys(start[i].tags))
      => Count(MutatingOps, i) = 0

\* A finished commit pass classified a resource that carries both the ignore
\* tag (value "false") and DeletionTag.
C1_Witness ==
  /\ PassDone /\ commit /\ result = "nil"
  /\ \E i \in ResIds :
       /\ Enumerated(i) /\ TagsRead(i) /\ ~start[i].isDefault
       /\ {IgnoreTag, DeletionTag} \subseteq Keys(start[i].tags)
       /\ tIgnF \in start[i].tags

\* C2: a dry-run pass issues no mutating call and leaves the provider state as
\* it found it; two consecutive dry-run passes that both list the resources
\* see the same resources and classify each of them alike.
Classified(c) == c \in {"ignored", "cloudformation", "unmarked", "marked"}

C2_DryRunIdempotent ==
  (pass >= 1 /\ ~commit) =>
    /\ \A j \in 1..Len(calls) : calls[j].op \notin MutatingOps
    /\ res = start
    /\ (pass >= 2 /\ ~prev.commit /\ pc = "done") =>
         /\ (result = "nil" /\ prev.result = "nil") =>
              \A i \in ResIds : (class[i] = "none") <=> (prev.class[i] = "none")
         /\ \A i \in ResIds :
              (Classified(class[i]) /\ Classified(prev.class[i]))
                => class[i] = prev.class[i]

\* Two finished dry-run passes over a marked and an unmarked resource.
C2_Witness ==
  /\ pass = 2 /\ pc = "done" /\ ~commit /\ ~prev.commit
  /\ result = "nil" /\ prev.result = "nil"
  /\ \E i, j \in ResIds :
       /\ class[i] = "marked" /\ prev.class[i] = "marked"
       /\ class[j] = "unmarked" /\ prev.class[j] = "unmarked"

\* C3 as stated: every delete call is issued in commit mode, in a pass strictly
\* later than a pass whose add-tag call put DeletionTag on the resource.
C3_DeleteOnlyAfterOwnMark ==
  \A i \in ResIds :
    Count(DeleteOps \cup TeardownOps, i) > 0
      => (commit /\ markedAt[i] >= 1 /\ markedAt[i] < pass)

\* C3, amended: a resource without DeletionTag at the start of a pass gets no
\* delete call in that pass; a delete call is issued only in commit mode, for a
\* resource that carried DeletionTag when the pass started, the tag having been
\* put by an add-tag call of a strictly earlier pass or carried before the
\* first pass.
C3_TwoPassLaw ==
  \A i \in ResIds :
    Count(DeleteOps \cup TeardownOps, i) > 0
      => /\ commit
         /\ DeletionTag \in Keys(start[i].tags)
         /\ markedAt[i] >= 0 /\ markedAt[i] < pass

\* A resource marked by the add-tag call of pass 1 gets its delete call in pass 2.
C3_Witness ==
  /\ pass = 2 /\ commit
  /\ \E i \in ResIds : markedAt[i] = 1 /\ Count(DeleteOps, i) = 1

\* C4 as stated: every enumerated resource with neither DeletionTag nor the
\* ignore tag gets exactly one add-tag call and no delete call in a commit
\* pass, and no mutating call in a dry-run pass.
C4_UnmarkedAllKinds ==
  \A i \in ResIds :
    (Enumerated(i) /\ Keys(start[i].tags) \cap {DeletionTag, IgnoreTag} = {})
      => /\ Count(AddTagOps, i) = (IF commit THEN 1 ELSE 0)
         /\ Count(DeleteOps \cup TeardownOps, i) = 0

\* C4, amended: the same for every enumerated resource that is not an excluded
\* VPC (default or CloudFormation-managed) and whose tags could be read (load
\* balancers: DescribeTags succeeded).
C4_Unmarked ==
  \A i \in ResIds :
    (/\ Enumerated(i) /\ TagsRead(i) /\ ~Excluded(i)
     /\ Keys(start[i].tags) \cap {DeletionTag, IgnoreTag} = {})
      => /\ Count(AddTagOps, i) = (IF commit THEN 1 ELSE 0)
         /\ Count(DeleteOps \cup TeardownOps, i) = 0

\* A commit pass issued the add-tag call of an unmarked, unprotected resource.
C4_Witness ==
  /\ commit
  /\ \E i \in ResIds :
       /\ Enumerated(i) /\ TagsRead(i) /\ ~Excluded(i)
       /\ Keys(start[i].tags) \cap {DeletionTag, IgnoreTag} = {}
       /\ Count(AddTagOps, i) = 1

\* C5 as stated: at the end of a pass every enumerated resource with
\* DeletionTag and without the ignore tag has got exactly one delete call in
\* commit mode, and no mutating call in dry-run.
C5_MarkedAllKinds ==
  PassDone =>
    \A i \in ResIds :
      (/\ Enumerated(i)
       /\ DeletionTag \in Keys(start[i].tags)
       /\ IgnoreTag \notin Keys(start[i].tags))
        => /\ Count(DeleteOps, i) = (IF commit THEN 1 ELSE 0)
           /\ ~commit => Count(MutatingOps, i) = 0

\* C5, amended: the same at the end of a pass whose enumeration succeeded,
\* for every enumerated resource that is not an excluded VPC and whose tags
\* could be read.
C5_Marked ==
  (PassDone /\ result = "nil") =>
    \A i \in ResIds :
      (/\ Enumerated(i) /\ TagsRead(i) /\ ~Excluded(i)
       /\ DeletionTag \in Keys(start[i].tags)
       /\ IgnoreTag \notin Keys(start[i].tags))
        => /\ Count(DeleteOps, i) = (IF commit THEN 1 ELSE 0)
           /\ ~commit => Count(MutatingOps, i) = 0

\* A commit pass ended after the delete call of a marked resource.
C5_Witness ==
  /\ PassDone /\ result = "nil" /\ commit
  /\ \E i \in ResIds :
       /\ Enumerated(i) /\ TagsRead(i) /\ ~Excluded(i)
       /\ DeletionTag \in Keys(start[i].tags)
       /\ IgnoreTag \notin Keys(start[i].tags)
       /\ Count(DeleteOps, i) = 1

\* The calls of the current pass on VPC i and its children, by phase.
Rank(op) ==
  CASE op \in {"DescribeNatGateways", "DeleteNatGateway"} -> 1
    [] op \in {"DescribeInternetGateways", "DetachInternetGateway",
               "DeleteInternetGateway"} -> 2
    [] op \in {"DescribeRouteTables", "DeleteRouteTable"} -> 3
    [] op \in {"DescribeSubnets", "DeleteSubnet"} -> 4
    [] op = "DeleteVpc" -> 5
    [] OTHER -> 0

DescribeKidOps == {"DescribeNatGateways", "DescribeInternetGateways",
                   "DescribeRouteTables", "DescribeSubnets"}

\* The delete, detach and teardown operations issued on resource i, in order.
RECURSIVE OpsOn(_, _)
OpsOn(i, n) ==
  IF n = 0 THEN <<>>
  ELSE OpsOn(i, n - 1) \o
       (IF calls[n].id = i /\ calls[n].op \in DeleteOps \cup TeardownOps
        THEN <<calls[n].op>> ELSE <<>>)

AllOk(i) == \A j \in 1..Len(calls) : calls[j].id = i => calls[j].ok

\* C6: the calls deleteVPC issues for one VPC come phase by phase, NAT
\* gateways, internet gateways (detach right before delete), route tables,
\* subnets; DeleteVpc comes after the describe call of each of the four phases;
\* for a VPC with a NAT gateway, an attached internet gateway, a non-main route
\* table and a subnet, with no call failing, the calls are exactly the five
\* dependency calls in that order, then DeleteVpc.
C6_DependencyOrder ==
  /\ \A k \in 1..Len(calls) :
       LET c == calls[k] rk == Rank(c.op) IN
         rk > 0 =>
           IF k > 1 /\ calls[k - 1].id = c.id /\ Rank(calls[k - 1].op) > 0
             THEN Rank(calls[k - 1].op) <= rk
             ELSE \* the first teardown call for this VPC in the pass
                  /\ rk = 1
                  /\ \A j \in 1..(k - 1) :
                       calls[j].id = c.id => Rank(calls[j].op) = 0
  /\ \A k \in 1..Len(calls) :
       /\ calls[k].op = "DeleteVpc" =>
            \A d \in DescribeKidOps :
              \E j \in 1..(k - 1) : calls[j].op = d /\ calls[j].id = calls[k].id
       /\ calls[k].op = "DeleteInternetGateway" =>
            /\ k > 1
            /\ calls[k - 1] = Call("DetachInternetGateway", calls[k].id,
                                   calls[k].child, TRUE)
  /\ \A v \in ResIds :
       (/\ kind = "vpc"
        /\ \E k \in 1..Len(calls) : calls[k].op = "DeleteVpc" /\ calls[k].id = v
        /\ start[v].kids = FullKids /\ AllOk(v))
         => OpsOn(v, Len(calls)) =
              <<"DeleteNatGateway", "DetachInternetGateway",
                "DeleteInternetGateway", "DeleteRouteTable", "DeleteSubnet",
                "DeleteVpc">>

\* DeleteVpc succeeded on a VPC that had all four kinds of dependents.
C6_Witness ==
  \E v \in ResIds :
    /\ kind = "vpc" /\ start[v].kids = FullKids /\ AllOk(v)
    /\ \E k \in 1..Len(calls) : calls[k] = Call("DeleteVpc", v, "", TRUE)

FailedCall(ops) ==
  \E j \in 1..Len(calls) : calls[j].op \in ops /\ ~calls[j].ok

\* C7: a commit pass in which a delete call failed still issued the delete
\* call of every worklisted resource, and returned nil.
C7_PartialFailureIsolation ==
  (PassDone /\ commit /\ FailedCall(DeleteOps)) =>
    /\ result = "nil"
    /\ \A i \in ResIds : class[i] = "marked" => Count(DeleteOps, i) = 1

\* The delete call of the first of two worklisted resources failed and the
\* second one got its delete call.
C7_Witness ==
  /\ PassDone /\ commit /\ result = "nil"
  /\ \E i, j \in ResIds :
       /\ i < j /\ class[i] = "marked" /\ class[j] = "marked"
       /\ \E k \in 1..Len(calls) :
            calls[k].op \in DeleteOps /\ calls[k].id = i /\ ~calls[k].ok
       /\ Count(DeleteOps, j) = 1

\* C8: the cleaner returns an error exactly when a listing call failed; no
\* other failing call makes the returned value non-nil.
C8_ErrorIffListingFails ==
  PassDone =>
    /\ result \in {"nil", "error"}
    /\ (result = "error") <=> FailedCall(ListOps)

\* A pass returned nil although a call other than the listing failed.
C8_Witness ==
  /\ PassDone /\ result = "nil"
  /\ FailedCall(DeleteOps \cup TeardownOps \cup DescribeKidOps)

\* C9: a default VPC gets no call at all, add-tag, delete or teardown.
C9_DefaultVpcUntouched ==
  \A i \in ResIds :
    (kind = "vpc" /\ start[i].exists /\ start[i].isDefault)
      => \A j \in 1..Len(calls) : calls[j].id # i

\* A commit pass ended over a default VPC that carries DeletionTag and no
\* ignore tag.
C9_Witness ==
  /\ PassDone /\ commit /\ result = "nil" /\ kind = "vpc"
  /\ \E i \in ResIds :
       /\ Enumerated(i) /\ start[i].isDefault
       /\ DeletionTag \in Keys(start[i].tags)
       /\ IgnoreTag \notin Keys(start[i].tags)

\* The route-table phase of VPC v listed the tables and ran to its end.
RouteTablesDone(v) ==
  \E j \in 1..Len(calls) :
    /\ calls[j] = Call("DescribeRouteTables", v, "", TRUE)
    /\ \E k \in (j + 1)..Len(calls) :
         calls[k].op = "DescribeSubnets" /\ calls[k].id = v

RouteTableDeletes(v, id) ==
  Cardinality({j \in 1..Len(calls) :
                 /\ calls[j].op = "DeleteRouteTable"
                 /\ calls[j].id = v /\ calls[j].child = id})

\* C10: a route table with an association flagged Main is never passed to
\* DeleteRouteTable; every other route table returned for the VPC is passed
\* to it exactly once.
C10_MainRouteTableExcluded ==
  \A v \in ResIds :
    \A n \in DOMAIN start[v].kids.rt :
      LET rt == start[v].kids.rt[n]
           n_del == RouteTableDeletes(v, rt.id) IN
        IF \E a \in DOMAIN rt.assoc : rt.assoc[a] = TRUE
          THEN n_del = 0
          ELSE /\ n_del <= 1
               /\ n_del = 0 => ~RouteTablesDone(v)

\* The route-table phase ran over a main and a non-main table.
C10_Witness ==
  \E v \in ResIds :
    /\ RouteTablesDone(v)
    /\ start[v].kids.rt = FullKids.rt
    /\ RouteTableDeletes(v, "rtb-1") = 1

\* C11 as stated: once ctx is cancelled in the middle of a pass, the next
\* provider call surfaces the cancellation and the rest of the cleaner is
\* aborted: no tag, detach or delete call is attempted after that call.
C11_CancelAborts ==
  cancelled =>
    \A j \in (cancelAt + 2)..Len(calls) : calls[j].op \notin MutatingOps

\* Resource i is in the listing of the current pass.
Listed(i) == start[i].exists /\ (kind = "eni" => start[i].available)

\* C12 as stated: no resource is classified and no add-tag call is issued
\* until every page of the listing has been retrieved.  pageFunc classifies
\* and tags the resources of a page while later pages are still to be
\* requested, so this fails in the two paginated cleaners.
C12_DrainedBeforeClassify ==
  \A i \in ResIds : (Enumerated(i) \/ Count(AddTagOps, i) > 0) => toList = <<>>

\* A call of one of the operations ops for resource i failed in this pass.
FailedFor(ops, i) ==
  \E j \in 1..Len(calls) :
    calls[j].op \in ops /\ calls[j].id = i /\ ~calls[j].ok

\* C13 as stated: a load balancer whose tags or whose target groups could not
\* be fetched gets no add-tag and no delete call in the pass.
C13_ContextFailureSkips ==
  kind = "elbv2" =>
    \A i \in ResIds :
      FailedFor({"DescribeTags", "DescribeTargetGroups"}, i) =>
        Count(AddTagOps \cup DeleteOps, i) = 0

\* No resource of the pass was classified as marked.
NoneMarked == \A i \in ResIds : class[i] # "marked"

\* No delete, detach or teardown call was issued in the pass.
NoDeleteCall ==
  \A j \in 1..Len(calls) : calls[j].op \notin DeleteOps \cup TeardownOps

\* C14 as stated: in every cleaner, a pass whose enumeration succeeds and in
\* which no resource is classified as marked logs "nothing to delete" and
\* returns nil without a delete call.
C14_EmptyWorklistAllKinds ==
  (PassDone /\ result = "nil" /\ NoneMarked) => (nothing /\ NoDeleteCall)

\* C14, amended: such a pass returns nil without a delete call in every
\* cleaner; the VPC and load-balancer cleaners log "nothing to delete" whenever
\* their worklist is empty, the network-interface cleaner only when the listing
\* returned no interface at all.
C14_EmptyWorklist ==
  (PassDone /\ result = "nil" /\ NoneMarked) =>
    /\ NoDeleteCall
    /\ kind \in {"vpc", "elbv2"} => nothing
    /\ kind = "eni" => (nothing <=> \A i \in ResIds : ~Listed(i))

\* A pass over existing resources, one ignored and one unmarked, ended with
\* the "nothing to delete" line.
C14_Witness ==
  /\ PassDone /\ result = "nil" /\ kind \in {"vpc", "elbv2"} /\ nothing
  /\ \E i, k \in ResIds : class[i] = "ignored" /\ class[k] = "unmarked"

\* A successful call of operation op for resource i is in the log.
Succeeded(op, i) ==
  \E j \in 1..Len(calls) : calls[j].op = op /\ calls[j].id = i /\ calls[j].ok

\* C15: among the calls deleteLoadBalancerV2 issues after listing the target
\* groups, DeleteLoadBalancer comes first, then the wait, then the
\* target-group deletes: the wait directly follows a successful
\* DeleteLoadBalancer of the same load balancer and every DeleteTargetGroup
\* directly follows that wait or another DeleteTargetGroup, so none is issued
\* when DeleteLoadBalancer failed; whatever the wait returns, every target
\* group that was listed gets its delete call; the reported outcome is nil
\* exactly when DeleteLoadBalancer succeeded, whatever the target-group
\* deletes return.
C15_LoadBalancerOrder ==
  kind = "elbv2" =>
    /\ \A j \in 1..Len(calls) :
         /\ calls[j].op = "WaitUntilLoadBalancersDeleted" =>
              /\ j > 1
              /\ calls[j - 1].op = "DeleteLoadBalancer"
              /\ calls[j - 1].id = calls[j].id
              /\ calls[j - 1].ok
         /\ calls[j].op = "DeleteTargetGroup" =>
              /\ j > 1
              /\ calls[j - 1].op \in {"WaitUntilLoadBalancersDeleted",
                                      "DeleteTargetGroup"}
              /\ calls[j - 1].id = calls[j].id
         /\ (calls[j].op = "DeleteLoadBalancer" /\ calls[j].ok /\ j < Len(calls)) =>
              /\ calls[j + 1].op = "WaitUntilLoadBalancersDeleted"
              /\ calls[j + 1].id = calls[j].id
    /\ \A i \in ResIds :
         /\ reported[i] = "nil" => Succeeded("DeleteLoadBalancer", i)
         /\ (PassDone /\ Succeeded("DeleteLoadBalancer", i)) => reported[i] = "nil"
         /\ reported[i] = "error" <=> FailedFor({"DeleteLoadBalancer"}, i)
         /\ (reported[i] = "nil" /\ Succeeded("DescribeTargetGroups", i)) =>
              Count({"DeleteTargetGroup"}, i) = Len(start[i].kids.tg)

\* The wait failed, the target group was deleted all the same, and the
\* deletion of the load balancer is reported as nil.
C15_Witness ==
  /\ kind = "elbv2"
  /\ \E i \in ResIds :
       /\ FailedFor({"WaitUntilLoadBalancersDeleted"}, i)
       /\ Count({"DeleteTargetGroup"}, i) = 1
       /\ reported[i] = "nil"

\* C16: in a commit pass of the VPC cleaner, DeleteVpc is issued at most once
\* per VPC; once deleteVPC has returned for a VPC, each of the four teardown
\* phases has issued its describe call once and DeleteVpc was issued exactly
\* once, whichever describe, detach or delete call failed; deleteVPC reports
\* an error exactly when that DeleteVpc call was rejected; a pass that ends
\* has done so for every worklisted VPC.
C16_OneDeleteVpc ==
  (kind = "vpc" /\ pass >= 1) =>
    /\ \A j \in 1..Len(calls) :
         LET c == calls[j] IN
           c.op = "DeleteVpc" =>
             /\ commit
             /\ reported[c.id] = (IF c.ok THEN "nil" ELSE "error")
             /\ \A k \in 1..(j - 1) :
                  ~(calls[k].op = "DeleteVpc" /\ calls[k].id = c.id)
             /\ \A op \in DescribeKidOps : Count({op}, c.id) = 1
    /\ \A i \in ResIds :
         /\ reported[i] # "none" =>
              \E j \in 1..Len(calls) :
                calls[j].op = "DeleteVpc" /\ calls[j].id = i
         /\ (PassDone /\ commit /\ result = "nil" /\ class[i] = "marked") =>
              reported[i] # "none"

\* A describe call of a teardown phase failed for a VPC, the later phases ran,
\* and its one DeleteVpc call was rejected and reported.
C16_Witness ==
  /\ kind = "vpc" /\ commit
  /\ \E i \in ResIds :
       /\ FailedFor({"DescribeNatGateways", "DescribeInternetGateways"}, i)
       /\ Succeeded("DescribeSubnets", i)
       /\ Count({"DeleteVpc"}, i) = 1
       /\ reported[i] = "error"

\* Every call in the log of the current pass succeeded.
NoCallFailed == \A j \in 1..Len(calls) : calls[j].ok

\* C19: when two consecutive commit passes of a cleaner end with no provider
\* call having failed, a resource the first pass classified as unmarked (not
\* protected, no DeletionTag) and the second pass lists carries DeletionTag at
\* the start of the second pass, is classified as marked there, gets exactly
\* one delete call in it and no longer exists at its end.
C19_TwoPassConvergence ==
  (pass >= 2 /\ pc = "done" /\ commit /\ prev.commit /\ fails = 0
     /\ NoCallFailed /\ result = "nil") =>
    \A i \in ResIds :
      (prev.class[i] = "unmarked" /\ Listed(i)) =>
        /\ DeletionTag \in Keys(start[i].tags)
        /\ class[i] = "marked"
        /\ Count(DeleteOps, i) = 1
        /\ ~res[i].exists

\* Two clean commit passes over a VPC with dependents that started without
\* DeletionTag: tagged in the first, deleted in the second.
C19_Witness ==
  /\ pass >= 2 /\ pc = "done" /\ commit /\ prev.commit /\ fails = 0
  /\ NoCallFailed /\ result = "nil" /\ kind = "vpc"
  /\ \E i \in ResIds :
       /\ prev.class[i] = "unmarked"
       /\ start[i].kids = FullKids
       /\ Count({"DeleteVpc"}, i) = 1
       /\ ~res[i].exists

\* The dependency-teardown operations of deleteVPC.
VpcTeardownOps == TeardownOps \ {"DeleteTargetGroup"}

\* VPC i is eligible at the start of the pass: it carries DeletionTag and is
\* not protected.
Eligible(i) ==
  /\ start[i].exists
  /\ DeletionTag \in Keys(start[i].tags)
  /\ IgnoreTag \notin Keys(start[i].tags)
  /\ ~start[i].isDefault
  /\ Keys(start[i].tags) \cap {CfnName, CfnId} = {}

\* C20: a NAT-gateway delete, internet-gateway detach or delete, route-table
\* delete or subnet delete is issued for a VPC only in a commit pass and only
\* if the VPC was classified as marked in that pass: it carries DeletionTag
\* and no ignore tag, is not the default VPC and has neither CloudFormation tag
\* key.  Every other VPC, and every VPC in dry-run, gets no such call.
C20_ChildrenOfProtectedUntouched ==
  kind = "vpc" =>
    \A j \in 1..Len(calls) :
      calls[j].op \in VpcTeardownOps =>
        /\ commit
        /\ class[calls[j].id] = "marked"
        /\ Eligible(calls[j].id)

\* A commit pass tore down the children of a marked VPC and ended without a
\* teardown call for a VPC that is protected or not yet marked.
C20_Witness ==
  /\ kind = "vpc" /\ PassDone /\ commit
  /\ \E i, k \in ResIds :
       /\ Eligible(i) /\ Count(VpcTeardownOps, i) >= 5
       /\ start[k].exists /\ ~Eligible(k) /\ start[k].kids = FullKids
       /\ Count(VpcTeardownOps, k) = 0

\* C17 as stated: once ctx is cancelled, on entry, while check runs or later,
\* waitUntil does not evaluate check again and returns the cancellation error,
\* never the timeout error, check's error or success.
C17_CancelImmediate ==
  ctxAt # "never" =>
    /\ lateChecks = 0
    /\ wpc = "returned" => wret = "ctxerr"

\* C17, amended: waitUntil looks at ctx only in the select that follows an
\* evaluation of check that reported neither done nor an error.  It returns the
\* cancellation error only if ctx was cancelled.  When the interval is longer
\* than any delay between arming the timer and polling the select, so that the
\* timer case is never ready together with ctx.Done(), a cancellation during
\* the sleep returns the cancellation error without any further evaluation of
\* check, and a cancellation before the sleep (on entry, before or while check
\* runs) is followed by at most one more evaluation of check, begun no later
\* than the iteration in progress.
C17_CancelAtSleep ==
  /\ wret = "ctxerr" => ctxAt # "never"
  /\ interval > MaxLag =>
       /\ lateChecks <= 1
       /\ ctxAt = "select" =>
            /\ lateChecks = 0
            /\ wpc \in {"select", "returned"}
            /\ wpc = "returned" => wret = "ctxerr"
       /\ ctxAt = "checking" => lateChecks = 0

\* ctx was cancelled on entry; check was still evaluated once, reported not
\* done, and the select, polled before the interval had passed, returned the
\* cancellation error.
C17_Witness ==
  /\ ctxAt = "entry" /\ interval > MaxLag
  /\ lateChecks = 1 /\ wpc = "returned" /\ wret = "ctxerr"

\* C18: with a positive interval waitUntil eventually returns; check is never
\* evaluated in an iteration that starts after the deadline; the timeout error
\* is returned only after the deadline; when ctx is never cancelled waitUntil
\* returns success, check's error or the timeout error, the timeout error if
\* check reported neither done nor an error.
C18_WaiterTerminates ==
  /\ [](/\ ~overdue
        /\ wret = "timeout" => now > waitFor
        /\ (wpc = "returned" /\ ctxAt = "never") =>
             wret \in {"nil", "checkerr", "timeout"})
  /\ ((interval > 0) ~> (wpc = "returned"))

\* check never reported done, ctx was not cancelled, and waitUntil returned
\* the timeout error after several evaluations.
C18_Witness ==
  /\ wpc = "returned" /\ wret = "timeout" /\ ctxAt = "never"
  /\ interval > 0 /\ checks >= 2
====
